---- MODULE Spec2Model ----
(***************************************************************************)
(* Model of the TransLink GTFS-Realtime fetchers (scripts/fetch_realtime.py,*)
(* scripts/utils.py, scripts/file_saver.py).                                *)
(*                                                                         *)
(* Three specifications share the module:                                  *)
(*   CsvSpec   FileSaver.save_csv called on one FileSaver's directory;      *)
(*   NormSpec  the three to_clean_dict normalizers applied to decoded feeds *)
(*             drawn from bounded sets;                                    *)
(*   Spec      the realtime run(): the loop over the three fetchers, each   *)
(*             running fetch_raw, parse, save_raw, save_clean, with the     *)
(*             logger of every fetcher.                                     *)
(*                                                                         *)
(* Protobuf optional fields are modelled with their has-bit: a field is the *)
(* empty tuple when unset and a one-element tuple when set.  Python's None  *)
(* in an output record is the empty tuple as well, a present value v is     *)
(* <<v>>.                                                                   *)
(***************************************************************************)
EXTENDS Integers, Sequences, FiniteSets, TLC

VARIABLES
    nfeed,      \* NormSpec: the decoded feed handed to a normalizer (feed.entity)
    result,     \* NormSpec: what the last to_clean_dict call returned or raised
    i,          \* Spec: index of the fetcher the loop of run() is at
    pc,         \* Spec: position in run() / RealtimeFetcher.run()
    raw,        \* Spec: bytes returned by fetch_raw of the current fetcher
    feed,       \* Spec: FeedMessage returned by parse of the current fetcher
    files,      \* Spec: the files written by the FileSavers, path -> content
    gets,       \* Spec: number of session.get calls issued by each fetcher
    started,    \* Spec: the fetchers whose run() was called
    steps,      \* Spec: the calls made by the fetchers' run(), in order, with outcome
    raised,     \* Spec: the exception propagating out of run(), "" if none
    logfile,    \* Spec: records written to data/runs/realtime_<now>.log
    console,    \* Spec: records written to the console (stderr)
    saver,      \* CsvSpec: the FileSaver instance (its path and timestamp)
    disk,       \* CsvSpec: the files of the FileSaver's directory, filename -> content
    csvcall     \* CsvSpec: the last save_csv call and how it ended

vars == <<nfeed, result, i, pc, raw, feed, files, gets, started, steps, raised, logfile, console,
         saver, disk, csvcall>>
normVars == <<nfeed, result>>
runVars == <<i, pc, raw, feed, files, gets, started, steps, raised, logfile, console>>
csvVars == <<saver, disk, csvcall>>

\* ---------------------------------------------------------------- bounds
MaxEntities == 2
MaxStops == 2
MaxRows == 2

\* ------------------------------------------------------- optional values
None == <<>>
Some(x) == <<x>>

\* message.HasField(name): the has-bit of an optional field
HasField(f) == f # <<>>

\* reading a proto2 field: the stored value, or the type's default when unset
Get(f, default) == IF f = <<>> THEN default ELSE f[1]

\* python `s or None` on a string
StrOrNone(s) == IF s = "" THEN None ELSE Some(s)

\* python `n if n else None` on a number
NumOrNone(n) == IF n = 0 THEN None ELSE Some(n)

\* sequences over S of length at most n
SeqUpTo(S, n) == UNION {[1..k -> S] : k \in 0..n}

\* ------------------------------------------------- enumerations (gtfs_realtime_pb2)
CauseNames ==
    <<"UNKNOWN_CAUSE", "OTHER_CAUSE", "TECHNICAL_PROBLEM", "STRIKE", "DEMONSTRATION",
      "ACCIDENT", "HOLIDAY", "WEATHER", "MAINTENANCE", "CONSTRUCTION",
      "POLICE_ACTIVITY", "MEDICAL_EMERGENCY">>

EffectNames ==
    <<"NO_SERVICE", "REDUCED_SERVICE", "SIGNIFICANT_DELAYS", "DETOUR",
      "ADDITIONAL_SERVICE", "MODIFIED_SERVICE", "OTHER_EFFECT", "UNKNOWN_EFFECT",
      "STOP_MOVED", "NO_EFFECT", "ACCESSIBILITY_ISSUE">>

\* Alert.cause [default = UNKNOWN_CAUSE], Alert.effect [default = UNKNOWN_EFFECT]
DefaultCause == 1
DefaultEffect == 8

\* mutation of EnumName: a number outside the enumeration gets the first name
EnumNameDefaulting(names, number) ==
    IF number \in DOMAIN names THEN Some(names[number]) ELSE Some(names[1])

\* EnumTypeWrapper.Name(number): the name, or ValueError for a number outside the
\* enumeration.  The result is <<name>> or None for the raised ValueError.
EnumName(names, number) ==
    IF number \in DOMAIN names THEN Some(names[number]) ELSE None

\* ------------------------------------------------------------ input domain
\* VehiclePosition: vehicle.id, trip.trip_id, trip.route_id, position, timestamp
VehicleStrings ==
    { <<None, None, None>>, <<Some(""), Some(""), Some("")>>,
      <<Some("V1"), Some("T1"), Some("R1")>>, <<Some("V2"), None, Some("R1")>>,
      <<None, Some("T1"), None>> }

Positions ==
    {None} \cup {Some([latitude |-> la, longitude |-> lo]) : la \in {0, 49}, lo \in {0, -123}}

Vehicle(s, p, t) ==
    [vehicle_id |-> s[1], trip_id |-> s[2], route_id |-> s[3], position |-> p, timestamp |-> t]

VehiclePositions ==
    {Vehicle(s, None, Some(1700)) : s \in VehicleStrings}
    \cup {Vehicle(<<Some("V1"), Some("T1"), Some("R1")>>, p, t) : p \in Positions, t \in {None, Some(1700)}}
    \cup {Vehicle(<<Some("V1"), Some("T1"), Some("R1")>>, Some([latitude |-> 49, longitude |-> -123]), Some(0))}

\* StopTimeEvent: time and delay, each with its has-bit
StopTimeEvent(t, d) == [time |-> t, delay |-> d]

\* StopTimeUpdate: stop_id, arrival, departure
StopTimeUpdates ==
    { [stop_id |-> Some("S1"), arrival |-> None, departure |-> None],
      [stop_id |-> Some("S2"), arrival |-> Some(StopTimeEvent(Some(0), Some(0))),
                               departure |-> Some(StopTimeEvent(Some(1700), Some(-30)))],
      [stop_id |-> None, arrival |-> Some(StopTimeEvent(None, Some(60))),
                         departure |-> Some(StopTimeEvent(Some(1700), None))] }

\* TripUpdate: trip.trip_id, trip.route_id, stop_time_update
TripUpdates ==
    {[trip_id |-> Some("T1"), route_id |-> Some("R1"), stop_time_update |-> s] :
        s \in SeqUpTo(StopTimeUpdates, MaxStops)}
    \cup {[trip_id |-> None, route_id |-> None, stop_time_update |-> <<>>],
          [trip_id |-> Some(""), route_id |-> Some("R1"), stop_time_update |-> <<>>]}

\* EntitySelector: trip.trip_id, route_id, stop_id
InformedEntities ==
    { <<>>,
      <<[trip_id |-> None, route_id |-> Some("R1"), stop_id |-> None]>>,
      <<[trip_id |-> Some("T1"), route_id |-> None, stop_id |-> Some("")],
        [trip_id |-> None, route_id |-> Some("R1"), stop_id |-> None]>> }

\* TranslatedString.translation: the texts of the translations, in stored order
Translations == { <<>>, <<"first">>, <<"first", "second">>, <<"second", "first">> }

CauseCodes == {None, Some(9), Some(3), Some(0), Some(13)}
EffectCodes == {None, Some(1), Some(0), Some(12)}

Alert(c, e, h, d, inf) ==
    [cause |-> c, effect |-> e, header_text |-> h, description_text |-> d,
     informed_entity |-> inf]

Alerts ==
    {Alert(c, Some(1), <<>>, <<>>, <<>>) : c \in CauseCodes}
    \cup {Alert(Some(9), e, <<>>, <<>>, <<>>) : e \in EffectCodes}
    \cup {Alert(None, None, <<>>, <<>>, <<>>), Alert(Some(13), Some(12), <<>>, <<>>, <<>>)}
    \cup {Alert(Some(9), Some(1), h, <<"desc">>, <<>>) : h \in Translations}
    \cup {Alert(Some(9), Some(1), <<"head">>, d, <<>>) : d \in Translations}
    \cup {Alert(Some(3), Some(1), <<"head">>, <<"desc">>, inf) : inf \in InformedEntities}

\* FeedEntity: the optional sub-messages vehicle, trip_update, alert
Entity(v, t, a) == [vehicle |-> v, trip_update |-> t, alert |-> a]

AnyVehicle == Vehicle(<<Some("V1"), Some("T1"), Some("R1")>>, None, Some(1700))
AnyAlert == Alert(Some(9), Some(1), <<>>, <<>>, <<>>)

Entities ==
    {Entity(Some(v), None, None) : v \in VehiclePositions}
    \cup {Entity(None, Some(t), None) : t \in TripUpdates}
    \cup {Entity(None, None, Some(a)) : a \in Alerts}
    \cup {Entity(None, None, None), Entity(Some(AnyVehicle), None, Some(AnyAlert))}

\* ------------------------------------------------------------- normalizers
\* what a to_clean_dict call produced: the exception raised ("" if none) and,
\* when none was raised, the returned list
Returned(list) == [raised |-> "", value |-> list]
Raised(exc) == [raised |-> exc, value |-> <<>>]

\* mutation of PositionLat: `v.position.latitude or None`
PositionLatOrNone(v) ==
    IF HasField(v.position) /\ v.position[1].latitude # 0
    THEN Some(v.position[1].latitude) ELSE None

\* PositionsFetcher.to_clean_dict: the record appended for entity.vehicle
PositionLat(v) ==
    IF HasField(v.position) THEN Some(v.position[1].latitude) ELSE None

PositionLon(v) ==
    IF HasField(v.position) THEN Some(v.position[1].longitude) ELSE None

PositionRecord(v) ==
    [vehicle_id |-> StrOrNone(Get(v.vehicle_id, "")),
     trip_id    |-> StrOrNone(Get(v.trip_id, "")),
     route_id   |-> StrOrNone(Get(v.route_id, "")),
     lat        |-> PositionLat(v),
     lon        |-> PositionLon(v),
     timestamp  |-> NumOrNone(Get(v.timestamp, 0))]

\* mutation of PositionsLoop: records are inserted at the front
RECURSIVE PositionsLoopReversed(_, _)
PositionsLoopReversed(entities, positions) ==
    IF entities = <<>> THEN positions
    ELSE LET entity == Head(entities) IN
         IF ~HasField(entity.vehicle)
         THEN PositionsLoopReversed(Tail(entities), positions)
         ELSE PositionsLoopReversed(Tail(entities),
                                    <<PositionRecord(entity.vehicle[1])>> \o positions)

\* PositionsFetcher.to_clean_dict: the loop over feed.entity
RECURSIVE PositionsLoop(_, _)
PositionsLoop(entities, positions) ==
    IF entities = <<>> THEN positions
    ELSE LET entity == Head(entities) IN
         IF ~HasField(entity.vehicle)
         THEN PositionsLoop(Tail(entities), positions)
         ELSE PositionsLoop(Tail(entities),
                            Append(positions, PositionRecord(entity.vehicle[1])))

PositionsToCleanDict(f) == Returned(PositionsLoop(f, <<>>))

\* TripUpdatesFetcher.to_clean_dict: the record appended for one stop_time_update
StopUpdateRecord(s) ==
    [stop_id         |-> Some(Get(s.stop_id, "")),
     arrival         |-> IF HasField(s.arrival)
                         THEN Some(Get(s.arrival[1].time, 0)) ELSE None,
     departure       |-> IF HasField(s.departure)
                         THEN Some(Get(s.departure[1].time, 0)) ELSE None,
     arrival_delay   |-> IF HasField(s.arrival)
                         THEN Some(Get(s.arrival[1].delay, 0)) ELSE None,
     departure_delay |-> IF HasField(s.departure)
                         THEN Some(Get(s.departure[1].delay, 0)) ELSE None]

\* mutation of StopUpdatesLoop: updates without arrival and departure are dropped
RECURSIVE StopUpdatesSkippingUnscheduled(_, _)
StopUpdatesSkippingUnscheduled(updates, stop_updates) ==
    IF updates = <<>> THEN stop_updates
    ELSE LET s == Head(updates) IN
         IF ~HasField(s.arrival) /\ ~HasField(s.departure)
         THEN StopUpdatesSkippingUnscheduled(Tail(updates), stop_updates)
         ELSE StopUpdatesSkippingUnscheduled(Tail(updates),
                                             Append(stop_updates, StopUpdateRecord(s)))

\* TripUpdatesFetcher.to_clean_dict: the inner loop over tu.stop_time_update
RECURSIVE StopUpdatesLoop(_, _)
StopUpdatesLoop(updates, stop_updates) ==
    IF updates = <<>> THEN stop_updates
    ELSE StopUpdatesLoop(Tail(updates), Append(stop_updates, StopUpdateRecord(Head(updates))))

TripRecord(tu) ==
    [trip_id           |-> Some(Get(tu.trip_id, "")),
     route_id          |-> Some(Get(tu.route_id, "")),
     stop_time_updates |-> StopUpdatesLoop(tu.stop_time_update, <<>>)]

\* TripUpdatesFetcher.to_clean_dict: the loop over feed.entity
RECURSIVE TripsLoop(_, _)
TripsLoop(entities, trips) ==
    IF entities = <<>> THEN trips
    ELSE LET entity == Head(entities) IN
         IF ~HasField(entity.trip_update)
         THEN TripsLoop(Tail(entities), trips)
         ELSE TripsLoop(Tail(entities), Append(trips, TripRecord(entity.trip_update[1])))

TripUpdatesToCleanDict(f) == Returned(TripsLoop(f, <<>>))

\* AlertsFetcher.to_clean_dict: the record appended for one informed_entity
InformedRecord(e) ==
    [trip_id  |-> StrOrNone(Get(e.trip_id, "")),
     route_id |-> StrOrNone(Get(e.route_id, "")),
     stop_id  |-> StrOrNone(Get(e.stop_id, ""))]

RECURSIVE InformedLoop(_, _)
InformedLoop(selectors, informed) ==
    IF selectors = <<>> THEN informed
    ELSE InformedLoop(Tail(selectors), Append(informed, InformedRecord(Head(selectors))))

\* mutation of FirstTranslation: the text of the last translation is taken
LastTranslation(translation) ==
    IF translation # <<>> THEN translation[Len(translation)] ELSE ""

\* translation[0].text if translation else ""
FirstTranslation(translation) ==
    IF translation # <<>> THEN translation[1] ELSE ""

\* Alert.Cause.Name(alert.cause), Alert.Effect.Name(alert.effect)
CauseName(alert) == EnumName(CauseNames, Get(alert.cause, DefaultCause))
EffectName(alert) == EnumName(EffectNames, Get(alert.effect, DefaultEffect))

AlertRecord(alert) ==
    [cause             |-> CauseName(alert)[1],
     effect            |-> EffectName(alert)[1],
     header            |-> FirstTranslation(alert.header_text),
     description       |-> FirstTranslation(alert.description_text),
     informed_entities |-> InformedLoop(alert.informed_entity, <<>>)]

\* AlertsFetcher.to_clean_dict: the loop over feed.entity; a ValueError raised by
\* Name() leaves the loop and the function
RECURSIVE AlertsLoop(_, _)
AlertsLoop(entities, alerts) ==
    IF entities = <<>> THEN Returned(alerts)
    ELSE LET entity == Head(entities) IN
         IF ~HasField(entity.alert)
         THEN AlertsLoop(Tail(entities), alerts)
         ELSE LET alert == entity.alert[1] IN
              IF CauseName(alert) = None \/ EffectName(alert) = None
              THEN Raised("ValueError")
              ELSE AlertsLoop(Tail(entities), Append(alerts, AlertRecord(alert)))

AlertsToCleanDict(f) == AlertsLoop(f, <<>>)

Kinds == {"positions", "trip_updates", "alerts"}

\* to_clean_dict of the fetcher of the given kind
ToCleanDict(kind, f) ==
    CASE kind = "positions" -> PositionsToCleanDict(f)
      [] kind = "trip_updates" -> TripUpdatesToCleanDict(f)
      [] kind = "alerts" -> AlertsToCleanDict(f)

\* ------------------------------------------------- NormSpec: the normalizers
NoResult == [kind |-> "none", raised |-> "", value |-> <<>>]

RunIdle ==
    /\ i = 0 /\ pc = "idle" /\ raw = <<>> /\ feed = <<>> /\ files = <<>>
    /\ gets = <<>> /\ started = {} /\ steps = <<>> /\ raised = ""
    /\ logfile = <<>> /\ console = <<>>

\* no FileSaver call is in progress
CsvIdle == saver = <<>> /\ disk = <<>> /\ csvcall = <<>>

NormInit ==
    /\ nfeed = <<>>
    /\ result = NoResult
    /\ RunIdle
    /\ CsvIdle

\* a decoded feed grows by one entity
AddEntity ==
    /\ result.kind = "none"
    /\ Len(nfeed) < MaxEntities
    /\ \E e \in Entities : nfeed' = Append(nfeed, e)
    /\ UNCHANGED <<result, runVars, csvVars>>

\* fetcher.to_clean_dict(feed)
Normalize ==
    /\ result.kind = "none"
    /\ \E kind \in Kinds :
         LET r == ToCleanDict(kind, nfeed) IN
         result' = [kind |-> kind, raised |-> r.raised, value |-> r.value]
    /\ UNCHANGED <<nfeed, runVars, csvVars>>

NormNext == AddEntity \/ Normalize

NormSpec == NormInit /\ [][NormNext]_vars

\* ------------------------------------------------------------- logging
\* Texts are sequences of characters; a fixed phrase stands as one element.
\* TRANSLINK_API_KEY is set in the environment: os.getenv returns this string.
ApiKey == <<"k", "e", "y">>
Mask == <<"***">>

\* str.replace(old, new): every non-overlapping occurrence, left to right
RECURSIVE Replace(_, _, _)
Replace(text, old, new) ==
    IF Len(text) < Len(old) THEN text
    ELSE IF SubSeq(text, 1, Len(old)) = old
         THEN new \o Replace(SubSeq(text, Len(old) + 1, Len(text)), old, new)
         ELSE <<Head(text)>> \o Replace(Tail(text), old, new)

\* old in text
Contains(text, old) ==
    \E k \in 1..(Len(text) - Len(old) + 1) : SubSeq(text, k, k + Len(old) - 1) = old

\* LogObfuscator.filter: rewrites record.msg in place, keeps the record
RECURSIVE ObfuscateKeywords(_, _)
ObfuscateKeywords(msg, keywords) ==
    IF keywords = <<>> THEN msg
    ELSE ObfuscateKeywords(Replace(msg, Head(keywords), Mask), Tail(keywords))

LogObfuscatorFilter(record, keywords) ==
    IF record.msg # <<>>
    THEN [record EXCEPT !.msg = ObfuscateKeywords(record.msg, keywords)]
    ELSE record

\* Formatter.format: the message, then the traceback when the record has one
FormatMessage(record) ==
    record.msg \o (IF record.exc_text # <<>> THEN <<"\n">> \o record.exc_text ELSE <<>>)

\* the handlers of a logger in the order addHandler attached them: the fetchers'
\* loggers have the file handler, then the console handler with the LogObfuscator;
\* the "Realtime" logger has the file handler alone
FileHandler == [stream |-> "file", keywords |-> <<>>]
ConsoleHandler == [stream |-> "console", keywords |-> <<ApiKey>>]

Handlers(name) ==
    IF name = "Realtime" THEN <<FileHandler>> ELSE <<FileHandler, ConsoleHandler>>

\* Logger.callHandlers: every handler in turn filters the one record object, then
\* emits it; a filter's rewrite of the record is seen by the handlers after it
RECURSIVE CallHandlers(_, _, _)
CallHandlers(handlers, record, out) ==
    IF handlers = <<>> THEN out
    ELSE LET h == Head(handlers)
             filtered == IF h.keywords # <<>>
                         THEN LogObfuscatorFilter(record, h.keywords) ELSE record
             line == [name |-> record.name, level |-> record.level,
                      text |-> FormatMessage(filtered)]
         IN  CallHandlers(Tail(handlers), filtered,
                 IF h.stream = "file"
                 THEN [out EXCEPT !.logfile = Append(@, line)]
                 ELSE [out EXCEPT !.console = Append(@, line.text)])

\* logger.info / logger.error / logger.exception
Log(name, level, msg, exc_text, out) ==
    CallHandlers(Handlers(name),
                 [name |-> name, level |-> level, msg |-> msg, exc_text |-> exc_text], out)

\* ------------------------------------------------------------ the fetchers
Fetchers == <<"PositionsFetcher", "TripUpdatesFetcher", "AlertsFetcher">>

KindOf(fetcher) ==
    CASE fetcher = "PositionsFetcher" -> "positions"
      [] fetcher = "TripUpdatesFetcher" -> "trip_updates"
      [] fetcher = "AlertsFetcher" -> "alerts"

\* the source name the fetcher's save_raw and save_clean pass to save_json
SourceOf(fetcher) ==
    CASE fetcher = "PositionsFetcher" -> "position_updates"
      [] fetcher = "TripUpdatesFetcher" -> "trip_updates"
      [] fetcher = "AlertsFetcher" -> "service_alerts"

Endpoint(fetcher) ==
    <<CASE fetcher = "PositionsFetcher" -> "https://gtfsapi.translink.ca/v3/gtfsposition?apikey="
        [] fetcher = "TripUpdatesFetcher" -> "https://gtfsapi.translink.ca/v3/gtfsrealtime?apikey="
        [] fetcher = "AlertsFetcher" -> "https://gtfsapi.translink.ca/v3/gtfsalerts?apikey=">>
    \o ApiKey

\* FileSaver._filename: base_dir / <source>_<timestamp>.<ext>
Filename(base, source, ext) == [dir |-> base \o "/" \o source, name |-> source, ext |-> ext]

RawPath(fetcher) == Filename("data/raw/realtime", SourceOf(fetcher), "json")
CleanPath(fetcher) == Filename("data/clean/realtime", SourceOf(fetcher), "json")

Paths == {RawPath(Fetchers[k]) : k \in 1..3} \cup {CleanPath(Fetchers[k]) : k \in 1..3}

\* MessageToDict(feed): per entity the sub-messages that are set, under their JSON
\* names; unset fields are left out
JsonNames(entity) ==
    (IF HasField(entity.vehicle) THEN {"vehicle"} ELSE {})
    \cup (IF HasField(entity.trip_update) THEN {"tripUpdate"} ELSE {})
    \cup (IF HasField(entity.alert) THEN {"alert"} ELSE {})

EntityToDict(entity) ==
    [n \in JsonNames(entity) |->
        CASE n = "vehicle" -> entity.vehicle[1]
          [] n = "tripUpdate" -> entity.trip_update[1]
          [] n = "alert" -> entity.alert[1]]

to_raw_dict(f) == [k \in 1..Len(f) |-> EntityToDict(f[k])]

\* str(e) of the exception session.get or raise_for_status raised
ExceptionText(outcome, fetcher) ==
    CASE outcome = "Timeout" -> <<"Read timed out. (read timeout=5)">>
      [] outcome = "HTTPError" -> <<"401 Client Error: Unauthorized for url: ">> \o Endpoint(fetcher)
      [] outcome = "ConnectionError" -> <<"Max retries exceeded with url: ">> \o Endpoint(fetcher)
      [] outcome = "Exception" -> <<"unexpected">>

\* the traceback exc_info=True adds to the record: it ends with str(e)
Traceback(outcome, fetcher) ==
    <<"Traceback (most recent call last): ">> \o ExceptionText(outcome, fetcher)

\* the message of the logger.error / logger.exception call of each except clause
ErrorMessage(outcome, fetcher) ==
    CASE outcome = "Timeout" -> <<"Timeout occurred while fetching feed.">>
      [] outcome = "HTTPError" ->
            <<"HTTP error 401 while fetching feed: ">> \o ExceptionText(outcome, fetcher)
      [] outcome = "ConnectionError" ->
            <<"Connection error: ">> \o ExceptionText(outcome, fetcher)
      [] outcome = "Exception" ->
            <<"Unexpected error while fetching feed: ">> \o ExceptionText(outcome, fetcher)

\* what session.get followed by raise_for_status can do
Outcomes == {"ok", "Timeout", "HTTPError", "ConnectionError", "Exception"}

\* response bodies: bytes are the serialization of a feed, or no valid FeedMessage
Bytes(valid, f) == [valid |-> valid, message |-> f]

ResponseFeeds ==
    { <<>>,
      <<Entity(Some(AnyVehicle), None, None),
        Entity(None, Some([trip_id |-> Some("T1"), route_id |-> Some("R1"),
                           stop_time_update |-> <<>>]), None),
        Entity(None, None, Some(AnyAlert))>>,
      <<Entity(None, None, Some(Alert(Some(13), Some(1), <<>>, <<>>, <<>>)))>> }

Bodies == {Bytes(TRUE, f) : f \in ResponseFeeds} \cup {Bytes(FALSE, <<>>)}

\* what open() and json.dump of save_json can do
WriteOutcomes == {"ok", "OSError"}

Current == Fetchers[i]
Step(call, outcome) == [fetcher |-> Current, call |-> call, outcome |-> outcome]
Logs == [logfile |-> logfile, console |-> console]

\* ------------------------------------------------------------ Spec: run()
Init ==
    /\ nfeed = <<>> /\ result = NoResult
    /\ i = 1
    /\ pc = "loop"
    /\ raw = None
    /\ feed = None
    /\ files = [p \in Paths |-> None]
    /\ gets = [k \in 1..3 |-> 0]
    /\ started = {}
    /\ steps = <<>>
    /\ raised = ""
    /\ logfile = <<>>
    /\ console = <<>>
    /\ CsvIdle

\* run(): the loop body up to the call of f.run()
RunFetcher ==
    /\ pc = "loop" /\ i <= Len(Fetchers)
    /\ LET out == Log("Realtime", "INFO", <<"Running ", Current>>, <<>>, Logs) IN
       /\ logfile' = out.logfile
       /\ console' = out.console
    /\ started' = started \cup {Current}
    /\ pc' = "fetch_raw"
    /\ UNCHANGED <<normVars, csvVars, i, raw, feed, files, gets, steps, raised>>

\* mutation of FetchRawWith: a timed-out GET is issued a second time
FetchRawRetrying(outcome, body) ==
    /\ pc = "fetch_raw"
    /\ gets' = [gets EXCEPT ![i] = @ + (IF outcome = "Timeout" THEN 2 ELSE 1)]
    /\ steps' = Append(steps, Step("fetch_raw", outcome))
    /\ LET out1 == Log(Current, "INFO", <<"Fetching from f">> \o Endpoint(Current), <<>>, Logs)
       IN  IF outcome = "ok"
           THEN LET out2 == Log(Current, "INFO", <<"Fetch successful.">>, <<>>, out1) IN
                /\ logfile' = out2.logfile /\ console' = out2.console
                /\ raw' = Some(body)
                /\ pc' = "parse"
                /\ UNCHANGED raised
           ELSE LET out2 == Log(Current, "ERROR", ErrorMessage(outcome, Current),
                                Traceback(outcome, Current), out1) IN
                /\ logfile' = out2.logfile /\ console' = out2.console
                /\ raised' = outcome
                /\ pc' = "raised"
                /\ UNCHANGED raw
    /\ UNCHANGED <<normVars, csvVars, i, feed, files, started>>

\* RealtimeFetcher.fetch_raw with the given result of session.get/raise_for_status
FetchRawWith(outcome, body) ==
    /\ pc = "fetch_raw"
    /\ gets' = [gets EXCEPT ![i] = @ + 1]
    /\ steps' = Append(steps, Step("fetch_raw", outcome))
    /\ LET out1 == Log(Current, "INFO", <<"Fetching from f">> \o Endpoint(Current), <<>>, Logs)
       IN  IF outcome = "ok"
           THEN LET out2 == Log(Current, "INFO", <<"Fetch successful.">>, <<>>, out1) IN
                /\ logfile' = out2.logfile /\ console' = out2.console
                /\ raw' = Some(body)
                /\ pc' = "parse"
                /\ UNCHANGED raised
           ELSE LET out2 == Log(Current, "ERROR", ErrorMessage(outcome, Current),
                                Traceback(outcome, Current), out1) IN
                /\ logfile' = out2.logfile /\ console' = out2.console
                /\ raised' = outcome
                /\ pc' = "raised"
                /\ UNCHANGED raw
    /\ UNCHANGED <<normVars, csvVars, i, feed, files, started>>

FetchRaw == \E outcome \in Outcomes, body \in Bodies : FetchRawWith(outcome, body)

\* mutation of Parse: a DecodeError is swallowed and an empty feed returned
ParseLenient ==
    /\ pc = "parse"
    /\ IF raw[1].valid
       THEN /\ feed' = Some(raw[1].message)
            /\ steps' = Append(steps, Step("parse", "ok"))
            /\ pc' = "save_raw"
            /\ UNCHANGED raised
       ELSE /\ steps' = Append(steps, Step("parse", "DecodeError"))
            /\ feed' = Some(<<>>)
            /\ pc' = "save_raw"
            /\ UNCHANGED raised
    /\ UNCHANGED <<normVars, csvVars, i, raw, files, gets, started, logfile, console>>

\* RealtimeFetcher.parse: ParseFromString raises DecodeError on bytes that are no
\* FeedMessage; nothing catches or logs it
Parse ==
    /\ pc = "parse"
    /\ IF raw[1].valid
       THEN /\ feed' = Some(raw[1].message)
            /\ steps' = Append(steps, Step("parse", "ok"))
            /\ pc' = "save_raw"
            /\ UNCHANGED raised
       ELSE /\ steps' = Append(steps, Step("parse", "DecodeError"))
            /\ raised' = "DecodeError"
            /\ pc' = "raised"
            /\ UNCHANGED feed
    /\ UNCHANGED <<normVars, csvVars, i, raw, files, gets, started, logfile, console>>

\* save_raw: raw_file_saver.save_json(source, to_raw_dict(feed))
SaveRaw ==
    /\ pc = "save_raw"
    /\ \E w \in WriteOutcomes :
        /\ steps' = Append(steps, Step("save_raw", w))
        /\ IF w = "ok"
           THEN /\ files' = [files EXCEPT ![RawPath(Current)] = Some(to_raw_dict(feed[1]))]
                /\ pc' = "save_clean"
                /\ UNCHANGED raised
           ELSE /\ raised' = w
                /\ pc' = "raised"
                /\ UNCHANGED files
    /\ UNCHANGED <<normVars, csvVars, i, raw, feed, gets, started, logfile, console>>

\* save_clean: clean_file_saver.save_json(source, to_clean_dict(feed)); the
\* argument is evaluated first, and its ValueError leaves save_clean before the
\* file is opened.  Returning from it ends f.run() and the loop moves on.
SaveClean ==
    /\ pc = "save_clean"
    /\ LET clean == ToCleanDict(KindOf(Current), feed[1]) IN
       IF clean.raised # ""
       THEN /\ steps' = Append(steps, Step("to_clean_dict", clean.raised))
            /\ raised' = clean.raised
            /\ pc' = "raised"
            /\ UNCHANGED <<files, i, raw, feed>>
       ELSE \E w \in WriteOutcomes :
            /\ steps' = steps \o <<Step("to_clean_dict", "ok"), Step("save_clean", w)>>
            /\ IF w = "ok"
               THEN /\ files' = [files EXCEPT ![CleanPath(Current)] = Some(clean.value)]
                    /\ i' = i + 1
                    /\ raw' = None
                    /\ feed' = None
                    /\ pc' = "loop"
                    /\ UNCHANGED raised
               ELSE /\ raised' = w
                    /\ pc' = "raised"
                    /\ UNCHANGED <<files, i, raw, feed>>
    /\ UNCHANGED <<normVars, csvVars, gets, started, logfile, console>>

\* run(): after the loop
Complete ==
    /\ pc = "loop" /\ i > Len(Fetchers)
    /\ LET out == Log("Realtime", "INFO", <<"Run complete.">>, <<>>, Logs) IN
       /\ logfile' = out.logfile
       /\ console' = out.console
    /\ pc' = "complete"
    /\ UNCHANGED <<normVars, csvVars, i, raw, feed, files, gets, started, steps, raised>>

Next == RunFetcher \/ FetchRaw \/ Parse \/ SaveRaw \/ SaveClean \/ Complete

Spec == Init /\ [][Next]_vars

\* ------------------------------------------------- CsvSpec: FileSaver.save_csv
\* A dict is the sequence of its <<key, value>> items in insertion order.
Dicts ==
    { << <<"a", "1">> >>,
      << <<"a", "2">>, <<"b", "3">> >>,
      << <<"b", "4">> >> }

\* the rows argument of save_csv
RowLists == SeqUpTo(Dicts, MaxRows)

\* the source argument of save_csv
Sources == {"position_updates", "service_alerts"}

\* FileSaver.__init__: the timestamp given, or the minute of construction
Timestamps == {"2026-11-04T23-28", "2026-11-04T23-29"}

\* dict.keys()
DictKeys(dict) == [k \in 1..Len(dict) |-> dict[k][1]]
KeySet(dict) == {dict[k][1] : k \in 1..Len(dict)}

\* dict.get(key, default)
DictGet(dict, key, default) ==
    IF key \in KeySet(dict)
    THEN dict[CHOOSE k \in 1..Len(dict) : dict[k][1] = key][2]
    ELSE default

Range(seq) == {seq[k] : k \in 1..Len(seq)}

\* FileSaver._filename: self.path / f"{source}_{self.timestamp}.{ext}"
FileSaverFilename(self, source, ext) ==
    self.path \o "/" \o source \o "_" \o self.timestamp \o "." \o ext

\* DictWriter._dict_to_list: the row's values in column order, "" for a missing key
DictToList(fieldnames, row) ==
    [k \in 1..Len(fieldnames) |-> DictGet(row, fieldnames[k], "")]

\* DictWriter.writerows: the rows are written one by one; a row with a key that is
\* no column raises ValueError, the rows before it are in the file
RECURSIVE WriteRows(_, _, _)
WriteRows(fieldnames, rows, lines) ==
    IF rows = <<>> THEN [lines |-> lines, raised |-> ""]
    ELSE IF KeySet(Head(rows)) \ Range(fieldnames) # {}
         THEN [lines |-> lines, raised |-> "ValueError"]
         ELSE WriteRows(fieldnames, Tail(rows),
                        Append(lines, DictToList(fieldnames, Head(rows))))

\* how a save_csv call ended: its arguments (the source, whether rows was empty,
\* the first row), the exception raised ("" if none) and the path returned
CsvCall(source, rows, exc, path) ==
    Some([source |-> source, empty |-> rows = <<>>,
          first |-> IF rows = <<>> THEN <<>> ELSE rows[1],
          raised |-> exc, returned |-> path])

\* mutation of SaveCsvWith: the file is opened before rows is tested
SaveCsvOpeningFirst(source, rows) ==
    LET path == FileSaverFilename(saver, source, "csv") IN
    IF rows = <<>>
    THEN /\ disk' = [disk EXCEPT ![path] = Some([header |-> <<>>, lines |-> <<>>])]
         /\ csvcall' = CsvCall(source, rows, "ValueError", None)
    ELSE LET fieldnames == DictKeys(rows[1])
             written == WriteRows(fieldnames, rows, <<>>)
         IN  /\ disk' = [disk EXCEPT ![path] =
                            Some([header |-> fieldnames, lines |-> written.lines])]
             /\ csvcall' = CsvCall(source, rows, written.raised,
                                   IF written.raised = "" THEN Some(path) ELSE None)

\* FileSaver.save_csv(source, rows)
SaveCsvWith(source, rows) ==
    IF rows = <<>>
    THEN /\ csvcall' = CsvCall(source, rows, "ValueError", None)
         /\ UNCHANGED disk
    ELSE LET path == FileSaverFilename(saver, source, "csv")
             fieldnames == DictKeys(rows[1])
             written == WriteRows(fieldnames, rows, <<>>)
         IN  /\ disk' = [disk EXCEPT ![path] =
                            Some([header |-> fieldnames, lines |-> written.lines])]
             /\ csvcall' = CsvCall(source, rows, written.raised,
                                   IF written.raised = "" THEN Some(path) ELSE None)

SaveCsv ==
    /\ \E source \in Sources, rows \in RowLists : SaveCsvWith(source, rows)
    /\ UNCHANGED <<normVars, runVars, saver>>

\* FileSaver(base_dir, timestamp): the directory exists and holds no file yet
CsvInit ==
    /\ nfeed = <<>> /\ result = NoResult
    /\ RunIdle
    /\ saver \in {[path |-> "data/clean", timestamp |-> t] : t \in Timestamps}
    /\ disk = [f \in {FileSaverFilename(saver, source, "csv") : source \in Sources} |-> None]
    /\ csvcall = None

CsvNext == SaveCsv

CsvSpec == CsvInit /\ [][CsvNext]_vars

\* ------------------------------------------- claims about the normalizers
\* the sub-message of an entity that the normalizer of the given kind reads
Variant(kind, entity) ==
    CASE kind = "positions" -> entity.vehicle
      [] kind = "trip_updates" -> entity.trip_update
      [] kind = "alerts" -> entity.alert

\* the indices of the entities of f whose populated variant matches the kind
Matching(kind, f) == {k \in 1..Len(f) : HasField(Variant(kind, f[k]))}

\* the index in f of the j-th matching entity
NthMatching(kind, f, j) ==
    CHOOSE m \in Matching(kind, f) : Cardinality({k \in Matching(kind, f) : k <= m}) = j

\* the j-th matching sub-message
NthSource(kind, f, j) == Variant(kind, f[NthMatching(kind, f, j)])[1]

ValidCodes(alert) ==
    /\ Get(alert.cause, DefaultCause) \in 1..Len(CauseNames)
    /\ Get(alert.effect, DefaultEffect) \in 1..Len(EffectNames)

\* some alert entity of f carries a cause or effect number outside the enumeration
HasUnknownEnum(f) == \E k \in Matching("alerts", f) : ~ValidCodes(f[k].alert[1])

RecordOf(kind, msg) ==
    CASE kind = "positions" -> PositionRecord(msg)
      [] kind = "trip_updates" -> TripRecord(msg)
      [] kind = "alerts" -> AlertRecord(msg)

Normalized == result.kind # "none"
ReturnedList == Normalized /\ result.raised = ""

\* C1: every normalizer returns the order-preserving image of exactly the entities
\* whose populated variant matches its kind: as many records as matching entities
\* (so at most as many as entities), the j-th record built from the j-th matching
\* entity; a non-matching entity gives no record and no error (the only error is
\* the alerts normalizer's, on a matching entity with an unknown enum number).
C1_OrderPreservingImage ==
    Normalized =>
        /\ result.raised # "" => (result.kind = "alerts" /\ HasUnknownEnum(nfeed))
        /\ result.raised = "" =>
             /\ Len(result.value) = Cardinality(Matching(result.kind, nfeed))
             /\ Len(result.value) <= Len(nfeed)
             /\ \A j \in 1..Len(result.value) :
                    result.value[j] = RecordOf(result.kind, NthSource(result.kind, nfeed, j))

\* a vehicle entity behind an entity of another variant was normalized to one record
C1_Witness ==
    /\ ReturnedList /\ result.kind = "positions"
    /\ Len(nfeed) = 2 /\ Len(result.value) = 1
    /\ ~HasField(nfeed[1].vehicle) /\ HasField(nfeed[1].trip_update)
    /\ result.value[1].vehicle_id = Some("V2")

\* C2: in every emitted record a field the data model marks optional is None
\* whenever its source field is unset or the empty string, and a stop-time time
\* or delay stored as 0 is emitted as 0; only the vehicle timestamp collapses 0.
OptionalString(field, out) == (Get(field, "") = "") => out = None

StopEventAbsent(event, out_time, out_delay) ==
    /\ (~HasField(event) \/ ~HasField(event[1].time)) => out_time = None
    /\ (~HasField(event) \/ ~HasField(event[1].delay)) => out_delay = None
    /\ (HasField(event) /\ event[1].time = Some(0)) => out_time = Some(0)
    /\ (HasField(event) /\ event[1].delay = Some(0)) => out_delay = Some(0)

C2_AbsentSentinel ==
    ReturnedList =>
        \A j \in 1..Len(result.value) :
            LET msg == NthSource(result.kind, nfeed, j)
                rec == result.value[j]
            IN  CASE result.kind = "positions" ->
                       /\ OptionalString(msg.vehicle_id, rec.vehicle_id)
                       /\ OptionalString(msg.trip_id, rec.trip_id)
                       /\ OptionalString(msg.route_id, rec.route_id)
                       /\ ~HasField(msg.position) => (rec.lat = None /\ rec.lon = None)
                       /\ Get(msg.timestamp, 0) = 0 => rec.timestamp = None
                  [] result.kind = "trip_updates" ->
                       \A k \in 1..Len(rec.stop_time_updates) :
                           LET s == msg.stop_time_update[k]
                               u == rec.stop_time_updates[k]
                           IN  /\ StopEventAbsent(s.arrival, u.arrival, u.arrival_delay)
                               /\ StopEventAbsent(s.departure, u.departure, u.departure_delay)
                  [] result.kind = "alerts" ->
                       \A k \in 1..Len(rec.informed_entities) :
                           LET e == msg.informed_entity[k]
                               u == rec.informed_entities[k]
                           IN  /\ OptionalString(e.trip_id, u.trip_id)
                               /\ OptionalString(e.route_id, u.route_id)
                               /\ OptionalString(e.stop_id, u.stop_id)

C9_LatLonPair ==
    (ReturnedList /\ result.kind = "positions") =>
        \A j \in 1..Len(result.value) :
            LET v == NthSource("positions", nfeed, j)
                rec == result.value[j]
            IN  /\ ~HasField(v.position) => (rec.lat = None /\ rec.lon = None)
                /\ HasField(v.position) =>
                     /\ rec.lat = Some(v.position[1].latitude)
                     /\ rec.lon = Some(v.position[1].longitude)
                /\ (rec.lat = None) <=> (rec.lon = None)

\* a vehicle without position and one at latitude 0 were normalized
C9_Witness ==
    /\ ReturnedList /\ result.kind = "positions" /\ Len(result.value) = 2
    /\ ~HasField(nfeed[1].vehicle[1].position)
    /\ result.value[1].lat = None /\ result.value[1].lon = None
    /\ result.value[2].lat = Some(0) /\ result.value[2].lon = Some(-123)

\* C10: stop_time_updates of a trip record has the length of the entity's
\* stop_time_update and its k-th element is built from the k-th input update.
C10_StopUpdatesPreserved ==
    (ReturnedList /\ result.kind = "trip_updates") =>
        \A j \in 1..Len(result.value) :
            LET tu == NthSource("trip_updates", nfeed, j)
                out == result.value[j].stop_time_updates
            IN  /\ Len(out) = Len(tu.stop_time_update)
                /\ \A k \in 1..Len(out) :
                       /\ out[k] = StopUpdateRecord(tu.stop_time_update[k])
                       /\ out[k].stop_id = Some(Get(tu.stop_time_update[k].stop_id, ""))

\* a trip update with two different stop-time updates, one of them without arrival
\* and departure, was normalized
C10_Witness ==
    /\ ReturnedList /\ result.kind = "trip_updates" /\ Len(result.value) >= 1
    /\ Len(result.value[1].stop_time_updates) = 2
    /\ result.value[1].stop_time_updates[1].stop_id = Some("S2")
    /\ result.value[1].stop_time_updates[2].stop_id = Some("S1")

\* the text the claim expects for a translations list
ExpectedText(translation) == IF Len(translation) = 0 THEN "" ELSE Head(translation)

\* C11: header and description of an alert record are the text of the first
\* element of the entity's translations list, and "" for an empty list; later
\* translations do not matter, and an empty list raises nothing (the alerts
\* normalizer raises only for an unknown enum number).
C11_FirstTranslation ==
    (Normalized /\ result.kind = "alerts") =>
        /\ result.raised # "" => HasUnknownEnum(nfeed)
        /\ result.raised = "" =>
             \A j \in 1..Len(result.value) :
                 LET alert == NthSource("alerts", nfeed, j) IN
                 /\ result.value[j].header = ExpectedText(alert.header_text)
                 /\ result.value[j].description = ExpectedText(alert.description_text)

\* an alert with two header translations and an alert with no description
\* translation were normalized
C11_Witness ==
    /\ ReturnedList /\ result.kind = "alerts" /\ Len(result.value) = 2
    /\ nfeed[1].alert[1].header_text = <<"second", "first">>
    /\ result.value[1].header = "second"
    /\ nfeed[2].alert[1].description_text = <<>>
    /\ result.value[2].description = ""
    /\ result.value[2].header = "head"

\* ------------------------------------------------ claims about save_csv
\* the file name the claim expects for a source
ExpectedCsvName(source) == saver.path \o "/" \o source \o "_" \o saver.timestamp \o ".csv"

\* C12: save_csv with an empty rows list raises ValueError and leaves every file
\* of the directory as it was (none created, none overwritten); with a non-empty
\* list it writes <source>_<timestamp>.csv, whose columns are the keys of the
\* first row, and touches no other file.
C12_SaveCsv ==
    [][LET call == csvcall'[1] IN
       /\ call.empty =>
            (call.raised = "ValueError" /\ call.returned = None /\ disk' = disk)
       /\ ~call.empty =>
            LET name == ExpectedCsvName(call.source) IN
            /\ name \in DOMAIN disk'
            /\ disk'[name] # None
            /\ Range(disk'[name][1].header) = KeySet(call.first)
            /\ Len(disk'[name][1].header) = Cardinality(KeySet(call.first))
            /\ call.returned # None => call.returned = Some(name)
            /\ \A other \in DOMAIN disk \ {name} : disk'[other] = disk[other]
      ]_vars

\* save_csv was called with no rows while the file of that source existed with
\* two columns, and the file is still there
C12_Witness ==
    /\ csvcall # None /\ csvcall[1].empty /\ csvcall[1].raised = "ValueError"
    /\ disk[ExpectedCsvName(csvcall[1].source)] # None
    /\ disk[ExpectedCsvName(csvcall[1].source)][1].header = <<"a", "b">>
    /\ Len(disk[ExpectedCsvName(csvcall[1].source)][1].lines) = 2

\* ------------------------------------------------ claims about run()
Ended == pc \in {"complete", "raised"}

\* the steps the given fetcher's run() made
StepsOf(fetcher) == SelectSeq(steps, LAMBDA s : s.fetcher = fetcher)

\* the ERROR records the given fetcher's logger wrote to the log file
ErrorLines(fetcher) ==
    SelectSeq(logfile, LAMBDA line : line.name = fetcher /\ line.level = "ERROR")

\* the records of the fetchers' loggers in the log file (these reach the console too)
FetcherLines == SelectSeq(logfile, LAMBDA line : line.name # "Realtime")

\* C4: an error in one fetcher's pipeline aborts only that pipeline: when the run
\* has ended, every fetcher's pipeline was executed, wherever the failure was.
C4_SiblingsStillRun ==
    Ended => \A k \in 1..Len(Fetchers) : Fetchers[k] \in started /\ StepsOf(Fetchers[k]) # <<>>

\* C5: no text written to the console contains the API key, and the log file
\* holds the same record unmasked (masking it gives the console text).
C5_ConsoleMasked ==
    /\ \A k \in 1..Len(console) : ~Contains(console[k], ApiKey)
    /\ Len(console) = Len(FetcherLines)
    /\ \A k \in 1..Len(console) : Replace(FetcherLines[k].text, ApiKey, Mask) = console[k]

\* the original C6: normalization precedes both writes, so a raw file exists only
\* after to_clean_dict succeeded and a failed normalization leaves no file
C6_NormalizeBeforeWrites ==
    \A k \in 1..Len(Fetchers) :
        LET f == Fetchers[k] IN
        files[RawPath(f)] # None =>
            \E n \in 1..Len(steps) :
                steps[n] = [fetcher |-> f, call |-> "to_clean_dict", outcome |-> "ok"]

StepOrder == <<"fetch_raw", "parse", "save_raw", "to_clean_dict", "save_clean">>

Failed(st, calls) == st # <<>> /\ st[Len(st)].outcome # "ok" /\ st[Len(st)].call \in calls

\* C6 (amended): every pipeline run performs fetch, decode, raw write, normalize,
\* clean write in this order, each step only after all earlier ones succeeded; a
\* run whose fetch or decode fails writes neither file, a run whose normalization
\* fails has written the raw file (the full decoded feed) and no clean file.
C6_StepOrder ==
    \A k \in 1..Len(Fetchers) :
        LET f == Fetchers[k]
            st == StepsOf(f)
        IN  /\ Len(st) <= Len(StepOrder)
            /\ \A n \in 1..Len(st) :
                   /\ st[n].call = StepOrder[n]
                   /\ n < Len(st) => st[n].outcome = "ok"
            /\ files[RawPath(f)] # None <=> (Len(st) >= 3 /\ st[3].outcome = "ok")
            /\ files[CleanPath(f)] # None <=> (Len(st) = 5 /\ st[5].outcome = "ok")
            /\ Failed(st, {"fetch_raw", "parse"}) =>
                   (files[RawPath(f)] = None /\ files[CleanPath(f)] = None)
            /\ Failed(st, {"to_clean_dict"}) =>
                   (files[RawPath(f)] # None /\ files[CleanPath(f)] = None)
            /\ (files[RawPath(f)] # None /\ k = i /\ feed # None) =>
                   /\ Len(files[RawPath(f)][1]) = Len(feed[1])
                   /\ files[RawPath(f)] = Some(to_raw_dict(feed[1]))

\* the alerts pipeline wrote its raw file, then its normalization failed
C6_Witness ==
    /\ pc = "raised" /\ raised = "ValueError" /\ Current = "AlertsFetcher"
    /\ files[RawPath("AlertsFetcher")] # None
    /\ files[CleanPath("AlertsFetcher")] = None
    /\ files[CleanPath("TripUpdatesFetcher")] # None

\* C7: every error that ends a pipeline run was logged by the fetcher's logger
\* before it left the run.
C7_ErrorsLogged ==
    pc = "raised" => ErrorLines(Current) # <<>>

\* C8: fetch_raw issues exactly one GET per pipeline run; on a failure it logs one
\* error and re-raises the exception of the GET, returning no bytes; on success it
\* returns the body and logs no error.
C8_SingleGet ==
    \A k \in 1..Len(Fetchers) :
        LET f == Fetchers[k]
            st == StepsOf(f)
        IN  /\ gets[k] = (IF st = <<>> THEN 0 ELSE 1)
            /\ (st # <<>> /\ st[1].outcome # "ok") =>
                   /\ Len(st) = 1 /\ k = i
                   /\ pc = "raised" /\ raised = st[1].outcome
                   /\ raw = None
                   /\ Len(ErrorLines(f)) = 1
            /\ (st # <<>> /\ st[1].outcome = "ok") =>
                   /\ ErrorLines(f) = <<>>
                   /\ (k = i /\ pc = "parse") => (raw # None /\ raw[1] \in Bodies)

\* the second fetcher's GET timed out after the first pipeline completed
C8_Witness ==
    /\ pc = "raised" /\ raised = "Timeout" /\ i = 2
    /\ gets = <<1, 1, 0>>
    /\ Len(ErrorLines("TripUpdatesFetcher")) = 1
    /\ ErrorLines("PositionsFetcher") = <<>>

====
